---------------------------- MODULE Spec2Model ----------------------------
(***************************************************************************)
(* Model of alerta/plugins/forwarder.py: the Forwarder plugin that         *)
(* replicates alerts, actions and deletes to remote Alerta peers and uses  *)
(* the X-Alerta-Loop request header to stop forwarding loops.              *)
(*                                                                         *)
(* Strings that the code inspects character by character (origins,         *)
(* endpoints, the header value) are sequences of one-character strings,    *)
(* so that Python's `in` on strings (a substring test) and '{},{}'.format  *)
(* are computed as Python computes them.                                   *)
(***************************************************************************)
EXTENDS Naturals, Sequences, FiniteSets

VARIABLES
    origin,     \* http_origin(): this node's absolute URL
    request,    \* the inbound request context: its X-Alerta-Loop header
    config,     \* FWD_DESTINATIONS: list of (remote, auth, actions)
    alert,      \* the alert handed to the hook
    pc,         \* "idle" before the hook runs, then "returned" or "raised"
    hook,       \* the hook that ran
    action,     \* the action argument of take_action ("" for other hooks)
    calls,      \* the remote client calls the hook made, in order
    ret,        \* what the hook returned or raised
    net,        \* network of peers: forwarded requests in flight
    netcfg,     \* network of peers: each peer's FWD_DESTINATIONS
    maxhops     \* network of peers: longest chain forwarded so far

vars == <<origin, request, config, alert, pc, hook, action, calls, ret,
          net, netcfg, maxhops>>

hookVars == <<origin, request, config, alert, pc, hook, action, calls, ret>>
netVars == <<net, netcfg, maxhops>>

-----------------------------------------------------------------------------
(* Bounds of the model *)

\* longest chain of identifiers in an inbound X-Alerta-Loop header
MaxChain == 2
\* longest FWD_DESTINATIONS list
MaxDests == 2

\* identifiers (origins, endpoints); "a" is a proper substring of "ab"
Ids == { <<"a">>, <<"a", "b">> }

\* the identifiers of the peers of the network model
Peers == { <<"a">>, <<"a", "b">>, <<"c">> }

\* credential bundles, as the set of keyword names of the auth dict
Credentials == { {"key"}, {"key", "headers"} }

\* permitted-operation lists, as sets of tokens
PermSets == { {"*"}, {"fwd"}, {"actions"}, {"delete"}, {"ack"} }

\* action names a caller may pass to take_action
ActionNames == { "ack", "fwd" }

Alerts == { "alert-1" }

-----------------------------------------------------------------------------
(* Python string primitives *)

Comma == <<",">>

\* Python `sub in s` on strings: sub occurs in s as a contiguous substring
StrIn(sub, s) ==
    \E k \in 0..Len(s) :
        /\ k + Len(sub) <= Len(s)
        /\ SubSeq(s, k + 1, k + Len(sub)) = sub

\* Python `x in lst` on lists
ListIn(x, lst) == x \in lst

\* ','.join(chain)
RECURSIVE Join(_)
Join(chain) ==
    IF Len(chain) = 0 THEN <<>>
    ELSE IF Len(chain) = 1 THEN chain[1]
    ELSE chain[1] \o Comma \o Join(Tail(chain))

\* s.split(','), except that the empty string gives the empty chain
RECURSIVE SplitFrom(_, _, _)
SplitFrom(s, k, cur) ==
    IF k > Len(s) THEN <<cur>>
    ELSE IF s[k] = "," THEN <<cur>> \o SplitFrom(s, k + 1, <<>>)
    ELSE SplitFrom(s, k + 1, Append(cur, s[k]))

Split(s) == IF s = <<>> THEN <<>> ELSE SplitFrom(s, 1, <<>>)

SeqRange(s) == { s[k] : k \in 1..Len(s) }

-----------------------------------------------------------------------------
(* The request context *)

Absent == [present |-> FALSE, value |-> <<>>]
Present(v) == [present |-> TRUE, value |-> v]

\* request.headers.get(X_LOOP_HEADER, '')
HeaderGetDefault(req) == IF req.present THEN req.value ELSE <<>>

\* the chain a header value stands for: split on commas, absent = empty
Decode(req) == IF req.present THEN Split(req.value) ELSE <<>>

\* membership of an identifier in the decoded chain
InChain(id, req) == id \in SeqRange(Decode(req))

\* a forwarder that passes a non-empty header on without adding its own origin
append_to_header_passes_on(req, org) ==
    IF (~req.present) \/ req.value = <<>>
    THEN org
    ELSE req.value

\* a forwarder that puts its own origin in front of the inbound value
append_to_header_prepends(req, org) ==
    IF (~req.present) \/ req.value = <<>>
    THEN org
    ELSE org \o Comma \o req.value

\* append_to_header(origin)
append_to_header(req, org) ==
    IF (~req.present) \/ req.value = <<>>
    THEN org
    ELSE req.value \o Comma \o org

\* is_in_xloop(server)
is_in_xloop(req, server) == StrIn(server, HeaderGetDefault(req))

-----------------------------------------------------------------------------
(* The remote client *)

\* Client(endpoint=remote, **auth, headers=headers): Python raises TypeError
\* when the auth dict repeats a keyword the call also passes by name
ClientRaises(auth) == ("endpoint" \in auth) \/ ("headers" \in auth)

\* outcome of one remote call: it returns, or it raises an Exception
Outcomes == { "ok", "fail" }

Returned(v) == [kind |-> "return", value |-> v]
Raised(e) == [kind |-> "raise", value |-> e]
NoResult == [kind |-> "none", value |-> ""]

-----------------------------------------------------------------------------
(* The hooks *)

\* post_receive: '*' in actions or 'fwd' in actions
PostReceivePermitted(actions) ==
    ListIn("*", actions) \/ ListIn("fwd", actions)

\* the condition of post_receive pasted into take_action with 'fwd' left in
TakeActionPermittedWithFwd(act, actions) ==
    \/ ListIn("*", actions) \/ ListIn("fwd", actions)
    \/ ListIn("actions", actions) \/ ListIn(act, actions)

\* take_action: '*' in actions or 'actions' in actions or action in actions
TakeActionPermitted(act, actions) ==
    ListIn("*", actions) \/ ListIn("actions", actions) \/ ListIn(act, actions)

\* delete: '*' in actions or 'actions' in actions or 'delete' in actions
DeletePermitted(actions) ==
    ListIn("*", actions) \/ ListIn("actions", actions) \/ ListIn("delete", actions)

Permitted(h, act, actions) ==
    CASE h = "post_receive" -> PostReceivePermitted(actions)
      [] h = "take_action"  -> TakeActionPermitted(act, actions)
      [] h = "delete"       -> DeletePermitted(actions)

\* the client method each hook calls
Method(h) ==
    CASE h = "post_receive" -> "send_alert"
      [] h = "take_action"  -> "action"
      [] h = "delete"       -> "delete_alert"

\* the value each hook returns after its loop
LoopResult(h, al) == IF h = "delete" THEN Returned("True") ELSE Returned(al)

\* a loop that never skips a destination for being in the header
RemoteInXLoopNever(req, remote) == FALSE

\* the operands of `in` swapped: `x_loop in remote`
RemoteInXLoopSwapped(req, remote) == StrIn(HeaderGetDefault(req), remote)

\* `remote in x_loop` in the loops
RemoteInXLoop(req, remote) == StrIn(remote, HeaderGetDefault(req))

\* an except clause that re-raises
ExceptClauseRaises == "raise"

\* the except clause around the remote call: log a warning and `continue`
ExceptClause == "continue"

\* a loop that writes the header it sent back into the request context, so
\* that the chain grows from one destination to the next
RECURSIVE FanOutGrowing(_, _, _, _, _, _, _, _, _)
FanOutGrowing(h, act, org, req, al, cfg, outs, k, done) ==
    IF k > Len(cfg) THEN [ret |-> LoopResult(h, al), calls |-> done]
    ELSE LET d == cfg[k] IN
        IF RemoteInXLoop(req, d.remote) \/ ~Permitted(h, act, d.actions)
        THEN FanOutGrowing(h, act, org, req, al, cfg, outs, k + 1, done)
        ELSE IF ClientRaises(d.auth)
        THEN [ret |-> Raised("TypeError"), calls |-> done]
        ELSE LET sent == append_to_header(req, org)
                 call == [idx |-> k, remote |-> d.remote, header |-> sent,
                          method |-> Method(h), arg |-> act, alert |-> al,
                          outcome |-> outs[k]]
             IN  FanOutGrowing(h, act, org, Present(sent), al, cfg, outs, k + 1,
                               Append(done, call))

\* the `for remote, auth, actions in FWD_DESTINATIONS` loop of post_receive,
\* take_action and delete, from destination k on; done: the calls made so far
RECURSIVE FanOut(_, _, _, _, _, _, _, _, _)
FanOut(h, act, org, req, al, cfg, outs, k, done) ==
    IF k > Len(cfg) THEN [ret |-> LoopResult(h, al), calls |-> done]
    ELSE LET d == cfg[k] IN
        IF RemoteInXLoop(req, d.remote)
        THEN FanOut(h, act, org, req, al, cfg, outs, k + 1, done)
        ELSE IF ~Permitted(h, act, d.actions)
        THEN FanOut(h, act, org, req, al, cfg, outs, k + 1, done)
        ELSE IF ClientRaises(d.auth)
        THEN [ret |-> Raised("TypeError"), calls |-> done]
        ELSE LET call == [idx     |-> k,
                          remote  |-> d.remote,
                          header  |-> append_to_header(req, org),
                          method  |-> Method(h),
                          arg     |-> act,
                          alert   |-> al,
                          outcome |-> outs[k]]
             IN  IF outs[k] = "fail" /\ ExceptClause # "continue"
                 THEN [ret |-> Raised("Exception"), calls |-> Append(done, call)]
                 ELSE FanOut(h, act, org, req, al, cfg, outs, k + 1,
                             Append(done, call))

\* pre_receive without its loop guard
PreReceiveGuardMissing(req, org) == FALSE

\* the loop guard of pre_receive
PreReceiveGuard(req, org) == is_in_xloop(req, org)

\* a hook without its loop guard
HookGuardMissing(req, org) == FALSE

\* the loop guard of take_action and delete: `origin in x_loop`
HookGuard(req, org) == StrIn(org, HeaderGetDefault(req))

pre_receive(org, req, al) ==
    IF PreReceiveGuard(req, org)
    THEN [ret |-> Raised("ForwardingLoop"), calls |-> <<>>]
    ELSE [ret |-> Returned(al), calls |-> <<>>]

\* post_receive calling every failed destination a second time
post_receive_retries(org, req, al, cfg, outs) ==
    LET r == FanOut("post_receive", "", org, req, al, cfg, outs, 1, <<>>)
        Failed(c) == c.outcome = "fail"
    IN  [ret |-> r.ret, calls |-> r.calls \o SelectSeq(r.calls, Failed)]

post_receive(org, req, al, cfg, outs) ==
    FanOut("post_receive", "", org, req, al, cfg, outs, 1, <<>>)

status_change(org, req, al, cfg) ==
    [ret |-> Returned("None"), calls |-> <<>>]

take_action(org, req, al, act, cfg, outs) ==
    IF HookGuard(req, org)
    THEN [ret |-> Raised("ForwardingLoop"), calls |-> <<>>]
    ELSE FanOut("take_action", act, org, req, al, cfg, outs, 1, <<>>)

delete(org, req, al, cfg, outs) ==
    IF HookGuard(req, org)
    THEN [ret |-> Raised("ForwardingLoop"), calls |-> <<>>]
    ELSE FanOut("delete", "", org, req, al, cfg, outs, 1, <<>>)

-----------------------------------------------------------------------------
(* One hook invocation on one node, for every input *)

SeqsUpTo(S, n) == UNION { [1..k -> S] : k \in 0..n }

Chains == SeqsUpTo(Ids, MaxChain)

Requests == { Absent } \cup { Present(Join(c)) : c \in Chains }

Destinations == [remote : Ids, auth : Credentials, actions : PermSets]

Configs == SeqsUpTo(Destinations, MaxDests)

Init ==
    /\ origin \in Ids
    /\ request \in Requests
    /\ config \in Configs
    /\ alert \in Alerts
    /\ pc = "idle"
    /\ hook = ""
    /\ action = ""
    /\ calls = <<>>
    /\ ret = NoResult
    /\ net = {}
    /\ netcfg = <<>>
    /\ maxhops = 0

\* the outcomes of the remote calls of one invocation; a destination that is
\* never called has no outcome (it is fixed to "ok")
CallOutcomes(h, act, req, cfg) ==
    { o \in [1..Len(cfg) -> Outcomes] :
        \A k \in 1..Len(cfg) :
            (\/ RemoteInXLoop(req, cfg[k].remote)
             \/ ~Permitted(h, act, cfg[k].actions)
             \/ ClientRaises(cfg[k].auth)) => o[k] = "ok" }

Finish(h, act, r) ==
    /\ hook' = h
    /\ action' = act
    /\ calls' = r.calls
    /\ ret' = r.ret
    /\ pc' = IF r.ret.kind = "raise" THEN "raised" ELSE "returned"
    /\ UNCHANGED <<origin, request, config, alert, netVars>>

PreReceive ==
    /\ pc = "idle"
    /\ Finish("pre_receive", "", pre_receive(origin, request, alert))

PostReceive ==
    /\ pc = "idle"
    /\ \E outs \in CallOutcomes("post_receive", "", request, config) :
        Finish("post_receive", "", post_receive(origin, request, alert, config, outs))

StatusChange ==
    /\ pc = "idle"
    /\ Finish("status_change", "", status_change(origin, request, alert, config))

TakeAction ==
    /\ pc = "idle"
    /\ \E act \in ActionNames :
       \E outs \in CallOutcomes("take_action", act, request, config) :
        Finish("take_action", act, take_action(origin, request, alert, act, config, outs))

Delete ==
    /\ pc = "idle"
    /\ \E outs \in CallOutcomes("delete", "", request, config) :
        Finish("delete", "", delete(origin, request, alert, config, outs))

Next == PreReceive \/ PostReceive \/ StatusChange \/ TakeAction \/ Delete

Spec == Init /\ [][Next]_vars

-----------------------------------------------------------------------------
(* The host's handling of one request: a received alert goes through        *)
(* pre_receive and, only when that returned, through post_receive; an       *)
(* action goes through take_action and a delete through delete.             *)

HostPreReceive ==
    /\ pc = "idle"
    /\ LET r == pre_receive(origin, request, alert)
       IN  /\ hook' = "pre_receive"
           /\ action' = ""
           /\ calls' = r.calls
           /\ ret' = r.ret
           /\ pc' = IF r.ret.kind = "raise" THEN "raised" ELSE "accepted"
           /\ UNCHANGED <<origin, request, config, alert, netVars>>

HostPostReceive ==
    /\ pc = "accepted"
    /\ \E outs \in CallOutcomes("post_receive", "", request, config) :
        Finish("post_receive", "", post_receive(origin, request, alert, config, outs))

HostNext == HostPreReceive \/ HostPostReceive \/ TakeAction \/ Delete

HostSpec == Init /\ [][HostNext]_vars

-----------------------------------------------------------------------------
(* A network of peers that each run the forwarder *)

PeerOrder == << <<"a">>, <<"a", "b">>, <<"c">> >>

\* a destination list that forwards everything to the peers in S
DestList(S) ==
    LET Chosen(p) == p \in S
        Entry(p) == [remote |-> p, auth |-> {"key"}, actions |-> {"*"}]
        chosen == SelectSeq(PeerOrder, Chosen)
    IN  [k \in 1..Len(chosen) |-> Entry(chosen[k])]

EventKinds == { "alert", "action", "delete" }

NetInit ==
    /\ netcfg \in [Peers -> { DestList(S) : S \in SUBSET Peers }]
    /\ \E p \in Peers, kind \in EventKinds :
        net = { [to |-> p, kind |-> kind, req |-> Absent] }
    /\ maxhops = 0
    /\ origin = <<"a">>
    /\ request = Absent
    /\ config = <<>>
    /\ alert = "alert-1"
    /\ pc = "idle"
    /\ hook = ""
    /\ action = ""
    /\ calls = <<>>
    /\ ret = NoResult

Max(a, b) == IF a >= b THEN a ELSE b

\* the requests the calls of one hook invocation put in flight: a call that
\* returned was handled by the remote; a call that raised may have reached it
Forwarded(kind, cs, reached) ==
    { [to |-> cs[k].remote, kind |-> kind, req |-> Present(cs[k].header)] :
        k \in { j \in 1..Len(cs) : cs[j].outcome = "ok" \/ cs[j].idx \in reached } }

Handle(m, r, reached) ==
    LET new == Forwarded(m.kind, r.calls, reached)
    IN  /\ net' = (net \ {m}) \cup new
        /\ maxhops' = IF new = {} THEN maxhops
                      ELSE Max(maxhops, Len(Split(append_to_header(m.req, m.to))))
        /\ UNCHANGED <<netcfg, hookVars>>

\* POST /alert: pre_receive, then (when it passes) post_receive
DeliverAlert ==
    \E m \in net :
        /\ m.kind = "alert"
        /\ LET cfg == netcfg[m.to]
               guard == pre_receive(m.to, m.req, "alert-1")
           IN  IF guard.ret.kind = "raise"
               THEN Handle(m, guard, {})
               ELSE \E outs \in CallOutcomes("post_receive", "", m.req, cfg),
                       reached \in SUBSET (1..Len(cfg)) :
                       Handle(m, post_receive(m.to, m.req, "alert-1", cfg, outs), reached)

\* PUT /alert/<id>/action: take_action
DeliverAction ==
    \E m \in net :
        /\ m.kind = "action"
        /\ LET cfg == netcfg[m.to]
           IN  \E outs \in CallOutcomes("take_action", "ack", m.req, cfg),
                  reached \in SUBSET (1..Len(cfg)) :
                  Handle(m, take_action(m.to, m.req, "alert-1", "ack", cfg, outs), reached)

\* DELETE /alert/<id>: delete
DeliverDelete ==
    \E m \in net :
        /\ m.kind = "delete"
        /\ LET cfg == netcfg[m.to]
           IN  \E outs \in CallOutcomes("delete", "", m.req, cfg),
                  reached \in SUBSET (1..Len(cfg)) :
                  Handle(m, delete(m.to, m.req, "alert-1", cfg, outs), reached)

NetNext == DeliverAlert \/ DeliverAction \/ DeliverDelete

\* every request in flight is being handled by the server it was sent to
NetSpec == NetInit /\ [][NetNext]_vars /\ WF_vars(NetNext)

-----------------------------------------------------------------------------
(* Vocabulary of the properties *)

Finished == pc # "idle"

FanOutHooks == { "post_receive", "take_action", "delete" }

LoopRejected == ret = Raised("ForwardingLoop")

\* the positions of the destination list the remote client was called for
CalledIdx == { calls[j].idx : j \in 1..Len(calls) }

\* the identifier occurs somewhere in the inbound header value
AppearsInHeader(id, req) ==
    req.present /\ \E lo, hi \in 1..Len(req.value) : SubSeq(req.value, lo, hi) = id

\* the permission table of the specification
TableMatch(h, act, perms) ==
    CASE h = "post_receive" -> ("*" \in perms) \/ ("fwd" \in perms)
      [] h = "take_action"  -> ("*" \in perms) \/ ("actions" \in perms) \/ (act \in perms)
      [] h = "delete"       -> ("*" \in perms) \/ ("actions" \in perms) \/ ("delete" \in perms)

\* destination k would be forwarded to by a hook whose gate lets it through
Eligible(k) ==
    /\ ~AppearsInHeader(config[k].remote, request)
    /\ TableMatch(hook, action, config[k].actions)
    /\ ~ClientRaises(config[k].auth)

-----------------------------------------------------------------------------
(* C1: in a network of peers that forward to one another, an event injected *)
(* with an absent loop header is forwarded only finitely often: eventually  *)
(* no forwarded request is in flight, and no request in flight ever carries *)
(* a chain longer than the number of peers (alert, action and delete        *)
(* events, every destination graph).                                        *)
C1_ForwardingEnds ==
    /\ <>[](net = {})
    /\ [](\A m \in net : Len(Decode(m.req)) <= Cardinality(Peers))

\* the network is quiet again after a request went over two hops
C1_Witness == net = {} /\ maxhops = 2

(* C2: pre_receive raises ForwardingLoop exactly when the self origin is a  *)
(* member of the chain obtained by splitting the header on commas, and      *)
(* otherwise returns the alert it was given.                                *)
C2_GuardExactlyMembers ==
    (Finished /\ hook = "pre_receive") =>
        /\ LoopRejected <=> InChain(origin, request)
        /\ ~InChain(origin, request) => ret = Returned(alert)

(* C3: take_action and delete, invoked while this node's origin is already  *)
(* in the inbound chain, raise ForwardingLoop and call the remote client    *)
(* for no destination: the check comes before the first destination.        *)
C3_GuardBeforeFanOut ==
    (Finished /\ hook \in {"take_action", "delete"} /\ InChain(origin, request)) =>
        /\ LoopRejected
        /\ calls = <<>>

\* a rejected action whose first destination would otherwise have been called
C3_Witness ==
    /\ pc = "raised"
    /\ hook = "take_action"
    /\ InChain(origin, request)
    /\ Len(config) >= 1
    /\ Eligible(1)

(* C4: in every fan-out hook a destination whose endpoint appears in the    *)
(* inbound chain is skipped, the remote client is never called for it,      *)
(* whatever its permitted operations are.                                   *)
C4_InChainSkipped ==
    Finished =>
        \A k \in 1..Len(config) :
            (InChain(config[k].remote, request)
                \/ AppearsInHeader(config[k].remote, request)) => k \notin CalledIdx

\* post_receive skipped a wildcard destination of the chain and called another
C4_Witness ==
    /\ pc = "returned"
    /\ hook = "post_receive"
    /\ calls # <<>>
    /\ \E k \in 1..Len(config) :
        /\ InChain(config[k].remote, request)
        /\ config[k].actions = {"*"}
        /\ ~ClientRaises(config[k].auth)
        /\ k \notin CalledIdx

(* C5: a remote call that fails does not prevent the call to any later      *)
(* destination: the hook calls exactly the destinations it calls when every *)
(* remote call succeeds, and every destination after a failed call that is  *)
(* eligible is called as long as the hook returns.                          *)
C5_FailureIsolated ==
    (Finished /\ hook \in FanOutHooks /\ ~LoopRejected) =>
        LET allOk == [k \in 1..Len(config) |-> "ok"]
            okRun == FanOut(hook, action, origin, request, alert, config, allOk, 1, <<>>)
        IN  /\ CalledIdx = { okRun.calls[j].idx : j \in 1..Len(okRun.calls) }
            /\ \A j \in 1..Len(calls) :
                (calls[j].outcome = "fail" /\ pc = "returned") =>
                    \A k \in (calls[j].idx + 1)..Len(config) :
                        Eligible(k) => k \in CalledIdx

\* the first call failed and the second destination was still called
C5_Witness ==
    /\ pc = "returned"
    /\ hook \in FanOutHooks
    /\ Len(calls) = MaxDests
    /\ calls[1].outcome = "fail"
    /\ calls[Len(calls)].outcome = "ok"

(* C6: whenever its loop guard passes, delete returns True, for every       *)
(* destination list and every combination of remote outcomes.               *)
C6_DeleteReturnsTrue ==
    (Finished /\ hook = "delete" /\ ~LoopRejected) => ret = Returned("True")

(* C7: the fan-out of post_receive and of take_action (guard passed) never  *)
(* raises: for every destination list, credential bundle and remote outcome *)
(* the hook returns the alert it was given.                                 *)
C7_FanOutNeverRaises ==
    (Finished /\ hook \in {"post_receive", "take_action"} /\ ~LoopRejected) =>
        ret = Returned(alert)

(* C8: for a destination that is not in the chain, the remote client is     *)
(* called if and only if the permitted operations match the event kind      *)
(* according to the permission table.                                       *)
C8_PermissionTable ==
    (Finished /\ hook \in FanOutHooks /\ ~LoopRejected) =>
        \A k \in 1..Len(config) :
            ~AppearsInHeader(config[k].remote, request) =>
                (k \in CalledIdx <=> TableMatch(hook, action, config[k].actions))

(* C9: a destination permitted exactly ['fwd'] is never sent an action, for *)
(* every action name, and a destination permitted exactly ['actions'] is    *)
(* never sent a create/update forward.                                      *)
C9_Separation ==
    Finished =>
        \A j \in 1..Len(calls) :
            /\ config[calls[j].idx].actions = {"fwd"} => calls[j].method # "action"
            /\ config[calls[j].idx].actions = {"actions"} => calls[j].method # "send_alert"

(* C9, amended: a destination permitted exactly ['fwd'] is never sent an    *)
(* action whose name is not itself 'fwd', and a destination permitted       *)
(* exactly ['actions'] is never sent a create/update forward.               *)
C9_SeparationButForName ==
    Finished =>
        \A j \in 1..Len(calls) :
            /\ (config[calls[j].idx].actions = {"fwd"} /\ calls[j].method = "action")
                    => calls[j].arg = "fwd"
            /\ config[calls[j].idx].actions = {"actions"} => calls[j].method # "send_alert"

\* an action went to one destination and not to the 'fwd'-only one beside it
C9_Witness ==
    /\ pc = "returned"
    /\ hook = "take_action"
    /\ action = "ack"
    /\ calls # <<>>
    /\ \E k \in 1..Len(config) :
        /\ config[k].actions = {"fwd"}
        /\ ~AppearsInHeader(config[k].remote, request)
        /\ ~ClientRaises(config[k].auth)
        /\ k \notin CalledIdx

(* C10: a wildcard destination that is not in the chain is sent every       *)
(* event: the create/update forward, the delete, and every action.          *)
C10_WildcardSentEverything ==
    (Finished /\ hook \in FanOutHooks /\ ~LoopRejected) =>
        \A k \in 1..Len(config) :
            (config[k].actions = {"*"} /\ ~AppearsInHeader(config[k].remote, request))
                => k \in CalledIdx

(* C11: every outbound request of every fan-out hook carries the loop     *)
(* header whose value is the inbound chain extended by this node's origin:  *)
(* the origin alone when the inbound header is absent or empty, otherwise   *)
(* the inbound value, a comma and the origin, the inbound identifiers kept  *)
(* in their order.                                                          *)
C11_OutboundHeader ==
    Finished =>
        \A j \in 1..Len(calls) :
            /\ Split(calls[j].header) = Append(Decode(request), origin)
            /\ (~request.present \/ request.value = <<>>) => calls[j].header = origin
            /\ (request.present /\ request.value # <<>>) =>
                   /\ SubSeq(calls[j].header, 1, Len(request.value)) = request.value
                   /\ calls[j].header[Len(request.value) + 1] = ","
                   /\ SubSeq(calls[j].header, Len(request.value) + 2,
                             Len(calls[j].header)) = origin

\* a delete forwarded on behalf of a request that already went over two peers
C11_Witness ==
    /\ pc = "returned"
    /\ hook = "delete"
    /\ Len(Decode(request)) = 2
    /\ calls # <<>>

(* C12: round trip of the loop marker: for every chain (absent, empty or    *)
(* non-empty) and every identifier, the value append_to_header produces is  *)
(* recognised by the receiver's containment test as containing the          *)
(* identifier, also as a member of the decoded chain; so is every header a  *)
(* hook sent.                                                               *)
C12_RoundTrip ==
    /\ is_in_xloop(Present(append_to_header(request, origin)), origin)
    /\ InChain(origin, Present(append_to_header(request, origin)))
    /\ \A j \in 1..Len(calls) : is_in_xloop(Present(calls[j].header), origin)

\* a header was sent on behalf of a request whose chain held another identifier
C12_Witness ==
    /\ Finished
    /\ calls # <<>>
    /\ request.present
    /\ request.value # <<>>
    /\ ~InChain(origin, request)

(* C13: with an absent loop header the chain is empty and the in-chain test *)
(* is false for every destination and every origin: no destination is       *)
(* skipped as already in the loop (a hook that returns has called every     *)
(* destination its permissions admit) and no hook raises ForwardingLoop.    *)
C13_AbsentHeader ==
    ~request.present =>
        /\ Decode(request) = <<>>
        /\ ~is_in_xloop(request, origin)
        /\ ~HookGuard(request, origin)
        /\ \A k \in 1..Len(config) : ~RemoteInXLoop(request, config[k].remote)
        /\ ~LoopRejected
        /\ (pc = "returned" /\ hook \in FanOutHooks) =>
               \A k \in 1..Len(config) :
                   TableMatch(hook, action, config[k].actions) => k \in CalledIdx

\* with no header a hook called every destination of a full list
C13_Witness ==
    /\ ~request.present
    /\ pc = "returned"
    /\ hook = "take_action"
    /\ Len(calls) = MaxDests

(* C14: a local status change is replicated to the remote peers: the      *)
(* status_change hook calls the remote client for each destination that is  *)
(* permitted (a wildcard destination at the least) and not in the chain.    *)
C14_StatusChangeForwarded ==
    (Finished /\ hook = "status_change") =>
        \A k \in 1..Len(config) :
            (/\ config[k].actions = {"*"}
             /\ ~AppearsInHeader(config[k].remote, request)
             /\ ~ClientRaises(config[k].auth)) => k \in CalledIdx

(* C15: no remote call is made by a node for an event whose inbound chain   *)
(* already contains the node's own origin: a received alert reaches the     *)
(* fan-out of post_receive only after pre_receive returned, and take_action *)
(* and delete check the chain themselves.                                   *)
C15_NoSendWhenInChain ==
    /\ InChain(origin, request) => calls = <<>>
    /\ hook = "post_receive" => ~InChain(origin, request)

\* pre_receive rejected an alert that post_receive would have forwarded
C15_Witness ==
    /\ pc = "raised"
    /\ hook = "pre_receive"
    /\ InChain(origin, request)
    /\ Len(config) >= 1
    /\ config[1].actions = {"*"}
    /\ ~AppearsInHeader(config[1].remote, request)
    /\ ~ClientRaises(config[1].auth)

(* C16: no retries: within one hook invocation the remote client is      *)
(* called at most once per entry of the destination list, in list order,    *)
(* also when the call fails; a failed destination is not tried again.       *)
C16_AtMostOncePerEntry ==
    Finished =>
        /\ Len(calls) <= Len(config)
        /\ \A i, j \in 1..Len(calls) : i < j => calls[i].idx < calls[j].idx
        /\ \A j \in 1..Len(calls) : calls[j].idx \in 1..Len(config)

\* post_receive returned after a call failed, with that one call made
C16_Witness ==
    /\ pc = "returned"
    /\ hook = "post_receive"
    /\ Len(calls) = 1
    /\ calls[1].outcome = "fail"

\* what a hook sent: for each call the destination entry, header and payload
Sent(cfg, cs) ==
    { [dest   |-> cfg[cs[j].idx],
       header |-> cs[j].header,
       method |-> cs[j].method,
       arg    |-> cs[j].arg,
       alert  |-> cs[j].alert] : j \in 1..Len(cs) }

Permutations(n) ==
    { p \in [1..n -> 1..n] : \A i, j \in 1..n : p[i] = p[j] => i = j }

(* C17: destinations are independent: the destinations a hook calls, and    *)
(* the header and payload each one receives, are the same for every         *)
(* permutation of the destination list and every assignment of success or   *)
(* failure to the remote calls.                                             *)
C17_OrderAndOutcomeIndependent ==
    (Finished /\ hook \in FanOutHooks /\ ~LoopRejected) =>
        \A p \in Permutations(Len(config)) :
            \A o \in [1..Len(config) -> Outcomes] :
                LET permuted == [k \in 1..Len(config) |-> config[p[k]]]
                    other == FanOut(hook, action, origin, request, alert,
                                    permuted, o, 1, <<>>)
                IN  Sent(permuted, other.calls) = Sent(config, calls)

(* C18: with an empty destination list no hook calls the remote client,   *)
(* yet the loop guards still run: pre_receive, take_action and delete raise *)
(* ForwardingLoop when the self origin is in the inbound chain and          *)
(* otherwise return the alert (True for delete).                            *)
C18_EmptyListGuardsRun ==
    (Finished /\ config = <<>>) =>
        /\ calls = <<>>
        /\ hook \in {"pre_receive", "take_action", "delete"} =>
               /\ InChain(origin, request) => LoopRejected
               /\ ~InChain(origin, request) =>
                      ret = (IF hook = "delete" THEN Returned("True") ELSE Returned(alert))

NoRepeat(chain) ==
    \A i, j \in 1..Len(chain) : chain[i] = chain[j] => i = j

(* C19: across hops, starting from an event with an absent header, no loop  *)
(* header of a forwarded request contains the same origin twice, and the    *)
(* chain a peer sends on is exactly one identifier longer than the chain of *)
(* the request it handled.                                                  *)
C19_ChainGrowsByOne ==
    /\ [](\A m \in net : NoRepeat(Decode(m.req)))
    /\ [][\A out \in net' \ net :
            \E in \in net \ net' :
                /\ Len(Decode(out.req)) = Len(Decode(in.req)) + 1
                /\ SubSeq(Decode(out.req), 1, Len(Decode(in.req))) = Decode(in.req)
                /\ Decode(out.req)[Len(Decode(out.req))] = in.to]_vars

\* a request in flight that went over two peers
C19_Witness == \E m \in net : Len(Decode(m.req)) = 2

(* C20: frame: a hook invocation changes neither the inbound chain it     *)
(* reads, nor the alert, nor the destination list, nor its origin; all the  *)
(* destinations called within one invocation receive the identical loop     *)
(* header (the chain does not grow from one destination to the next) and    *)
(* the alert as it was given.                                               *)
C20_Frame ==
    /\ [](\A i, j \in 1..Len(calls) :
            /\ calls[i].header = calls[j].header
            /\ calls[i].alert = alert)
    /\ [][/\ request' = request
          /\ alert' = alert
          /\ config' = config
          /\ origin' = origin]_vars

\* two destinations called on behalf of a request that carried a chain
C20_Witness ==
    /\ pc = "returned"
    /\ Len(calls) = 2
    /\ request.present
    /\ request.value # <<>>

=============================================================================
